---------------------------- MODULE Spec2Model ----------------------------
(***************************************************************************)
(* A model of randomgen's PCG32 and PCG64 basic RNGs                       *)
(* (src/randomgen/pcg32.pyx, src/randomgen/pcg64.pyx).                     *)
(*                                                                         *)
(* Integer widths.  TLC's integers are 32 bits wide, so every C integer    *)
(* type is modelled at a sixteenth of its width, all of them derived from  *)
(* one definition, HalfWord, the width of the model's uint32_t:            *)
(*     uint32_t -> HalfWord bits,  uint64_t -> 2*HalfWord bits,            *)
(*     __uint128_t / pcg128_t -> 4*HalfWord bits,                          *)
(*     int -> HalfWord bits signed, npy_intp -> 2*HalfWord bits signed.    *)
(* The relations between the widths that the code relies on (a pcg128_t is *)
(* two uint64_t halves, a 64-bit output is two uint32_t halves, the jump   *)
(* quantum is 2**(half the state width)) are kept, and all arithmetic      *)
(* wraps modulo 2**width as in C.                                          *)
(*                                                                         *)
(* Python values are modelled with their type: an argument of seed() is an *)
(* int, a float with a fractional part, a list or None; the value assigned *)
(* to .state is a dict (a TLA+ record whose DOMAIN is the dict's keys) or  *)
(* something that is not a dict.  Exceptions are modelled as the name of   *)
(* the exception class in the field err; "ok" means the call returned.     *)
(*                                                                         *)
(* The C functions behind the "cdef extern" declarations                   *)
(* (src/pcg64/pcg64.h, src/pcg32/pcg32.h) are not part of the sources at   *)
(* hand; they are modelled from the design specification (sections 4.2 to  *)
(* 4.6).                                                                   *)
(***************************************************************************)
EXTENDS Integers, Sequences, FiniteSets, TLC

\* Width in bits of the model's uint32_t (the real one has 32).
HalfWord == 2

U32 == HalfWord
U64 == 2 * HalfWord
U128 == 4 * HalfWord

Pow2(n) == 2 ^ n

----------------------------------------------------------------------------
(* Bit operations on non-negative integers of a given width.               *)

RECURSIVE Xor(_, _, _)
Xor(a, b, bits) ==
    IF bits = 0 THEN 0
    ELSE (((a % 2) + (b % 2)) % 2) + (2 * Xor(a \div 2, b \div 2, bits - 1))

\* rotate x, a value of `bits` bits, right by r
Rotr(x, r, bits) ==
    LET k == r % bits
    IN  ((x \div Pow2(k)) + (x % Pow2(k)) * Pow2(bits - k)) % Pow2(bits)

\* the least r with 2**r >= n: the number of bits that select a rotation
RECURSIVE Log2Ceil(_)
Log2Ceil(n) == IF n <= 1 THEN 0 ELSE 1 + Log2Ceil((n + 1) \div 2)


----------------------------------------------------------------------------
(* The C library behind the cdef extern declarations, modelled from the    *)
(* design specification.                                                   *)

\* The low 16 bits of the published multipliers (6364136223846793005 and
\* 47026247687942121848144207491837523525); the model's multiplier is the
\* published one modulo 2**(state width), so it is 5 modulo 8 like the original.
PCG_DEFAULT_MULTIPLIER_64 == 32557
PCG_DEFAULT_MULTIPLIER_128 == 63045

\* width of the LCG state: pcg_state_setseq_64 (PCG32), pcg_state_setseq_128 (PCG64)
StateBits(c) == IF c = "PCG32" THEN U64 ELSE U128

Mask(c) == Pow2(StateBits(c))

MULT(c) ==
    (IF c = "PCG32" THEN PCG_DEFAULT_MULTIPLIER_64 ELSE PCG_DEFAULT_MULTIPLIER_128)
        % Mask(c)

\* step: state' = state * MULT + increment (mod 2**W)
pcg_setseq_step(c, state, inc) == ((state * MULT(c)) + inc) % Mask(c)

\* the binary-exponentiation loop over the W bits of delta (least significant
\* first); the result is <<curMult, curPlus>>
RECURSIVE pcg_advance_loop(_, _, _, _, _, _, _)
pcg_advance_loop(c, i, delta, curMult, curPlus, runningMult, runningPlus) ==
    IF i = StateBits(c) THEN <<curMult, curPlus>>
    ELSE LET bit == (delta % 2) = 1
             cm == IF bit THEN (curMult * runningMult) % Mask(c) ELSE curMult
             cp == IF bit THEN ((curPlus * runningMult) + runningPlus) % Mask(c)
                   ELSE curPlus
             rp == ((runningPlus * runningMult) + runningPlus) % Mask(c)
             rm == (runningMult * runningMult) % Mask(c)
         IN  pcg_advance_loop(c, i + 1, delta \div 2, cm, cp, rm, rp)

\* advance: the affine map (curMult, curPlus) applied to the state in one step
pcg_advance_lcg(c, state, delta, inc) ==
    LET r == pcg_advance_loop(c, 0, delta, 1, 0, MULT(c), inc)
    IN  ((r[1] * state) + r[2]) % Mask(c)

\* narrow engine's permutation: xorshift, then rotate right by the top bits
pcg_output_xsh_rr(state) ==
    LET rotbits == Log2Ceil(U32)
        s2 == (U64 - U32) - rotbits
        s1 == (U32 + rotbits) \div 2
        xorshifted == (Xor(state \div Pow2(s1), state, U64) \div Pow2(s2)) % Pow2(U32)
        rot == state \div Pow2(U64 - rotbits)
    IN  Rotr(xorshifted, rot, U32)

\* wide engine's permutation (XSL-RR): fold the halves, rotate by the top bits
pcg_output_xsl_rr(state) ==
    LET rotbits == Log2Ceil(U64)
        rot == state \div Pow2(U128 - rotbits)
    IN  Rotr(Xor(state \div Pow2(U64), state % Pow2(U64), U64), rot, U64)

\* one native draw of the narrow engine: the output of the old state, then a step
pcg32_random_r(rng) ==
    [rng |-> [rng EXCEPT !.state = pcg_setseq_step("PCG32", rng.state, rng.inc)],
     out |-> pcg_output_xsh_rr(rng.state)]

\* one native draw of the wide engine: a step, then the output of the new state
pcg64_random_r(rng) ==
    LET s == pcg_setseq_step("PCG64", rng.state, rng.inc)
    IN  [rng |-> [rng EXCEPT !.state = s], out |-> pcg_output_xsl_rr(s)]

pcg32_next32(rng) == pcg32_random_r(rng)

\* the narrow engine's 64-bit draw: two consecutive 32-bit outputs
pcg32_next64(rng) ==
    LET a == pcg32_random_r(rng)
        b == pcg32_random_r(a.rng)
    IN  [rng |-> b.rng, out |-> (a.out * Pow2(U32)) + b.out]

pcg64_next64(rng) == pcg64_random_r(rng)

\* the wide engine's 32-bit draw: one half of a 64-bit output is returned, the
\* other is buffered and returned by the next 32-bit draw
pcg64_next32(rng) ==
    IF rng.has_uint32 # 0
    THEN [rng |-> [rng EXCEPT !.has_uint32 = 0], out |-> rng.uinteger]
    ELSE LET n == pcg64_random_r(rng)
         IN  [rng |-> [n.rng EXCEPT !.has_uint32 = 1,
                                    !.uinteger = n.out \div Pow2(U32)],
              out |-> n.out % Pow2(U32)]

\* the engine's canonical odd-forming transform of the stream selector
pcg_odd_increment(c, initseq) == ((2 * initseq) + 1) % Mask(c)

\* seeding: state = 0, one step, add the seed, one more step
pcg_setseq_srandom_r(c, rng, initstate, initseq) ==
    LET inc == pcg_odd_increment(c, initseq)
        s1 == pcg_setseq_step(c, 0, inc)
        s2 == (s1 + initstate) % Mask(c)
    IN  [rng EXCEPT !.state = pcg_setseq_step(c, s2, inc), !.inc = inc]

\* PCG_128BIT_CONSTANT(high, low)
PCG_128BIT_CONSTANT(high, low) == (high * Pow2(U64)) + low

\* seed and inc arrive as two uint64_t words each, the high word first
pcg64_set_seed(rng, seed, inc) ==
    pcg_setseq_srandom_r("PCG64", rng, PCG_128BIT_CONSTANT(seed[1], seed[2]),
                         PCG_128BIT_CONSTANT(inc[1], inc[2]))

pcg32_set_seed(rng, seed, inc) == pcg_setseq_srandom_r("PCG32", rng, seed, inc)

\* step arrives as two uint64_t words, the high word first
pcg64_advance(rng, step) ==
    [rng EXCEPT !.state = pcg_advance_lcg("PCG64", rng.state,
                              PCG_128BIT_CONSTANT(step[1], step[2]), rng.inc)]

pcg32_advance_state(rng, step) ==
    [rng EXCEPT !.state = pcg_advance_lcg("PCG32", rng.state, step, rng.inc)]

----------------------------------------------------------------------------
(* Python values and the conversions Cython and numpy apply to them.       *)

PyNone == [t |-> "None", v |-> 0]
PyInt(n) == [t |-> "int", v |-> n]
\* a float with a fractional part: n + 1/2
PyFrac(n) == [t |-> "float", v |-> n]
PyList == [t |-> "list", v |-> 0]

\* np.isscalar(x)
isscalar(x) == x.t \in {"int", "float"}
\* int(x) != x
NotIntegral(x) == x.t = "float"
\* x < n and x > n for an int or a float n + 1/2
PyLess(x, n) == x.v < n
PyGreater(x, n) == IF x.t = "float" THEN x.v >= n ELSE x.v > n

\* Cython's conversion of a Python int to an unsigned / a signed C integer of
\* `bits` bits raises OverflowError outside the type's range
FitsUnsigned(v, bits) == (0 <= v) /\ (v < Pow2(bits))
FitsSigned(v, bits) == ((0 - Pow2(bits - 1)) <= v) /\ (v < Pow2(bits - 1))

\* numpy's a[i] = v for a uint64 array: a negative v that fits a signed 64-bit
\* integer wraps, anything else out of range raises OverflowError
NpFitsUint64(v) == ((0 - Pow2(U64 - 1)) <= v) /\ (v < Pow2(U64))
NpAsUint64(v) == v % Pow2(U64)

Ok(rng) == [err |-> "ok", rng |-> rng]
Raise(e, rng) == [err |-> e, rng |-> rng]

----------------------------------------------------------------------------
(* PCG64 (src/randomgen/pcg64.pyx)                                         *)

PCG64_reset_state_variables(rng) == [rng EXCEPT !.has_uint32 = 0, !.uinteger = 0]

\* the checks on the seed argument and the fill of _seed, before anything is stored
PCG64_seed_check(seed) ==
    LET ub == Pow2(U128)
    IN  IF seed.t = "None" THEN "ok"
        ELSE IF ~isscalar(seed) THEN "TypeError"
        ELSE IF NotIntegral(seed) THEN "TypeError"
        ELSE IF PyLess(seed, 0) \/ PyGreater(seed, ub) THEN "ValueError"
        ELSE IF ~NpFitsUint64(seed.v \div Pow2(U64)) THEN "OverflowError"
        ELSE "ok"

\* the checks on the inc argument and the fill of _inc
PCG64_inc_check(inc) ==
    LET ub == Pow2(U128)
    IN  IF ~isscalar(inc) THEN "TypeError"
        ELSE IF PyLess(inc, 0) \/ PyGreater(inc, ub) \/ NotIntegral(inc)
             THEN "ValueError"
        ELSE IF ~NpFitsUint64(inc.v \div Pow2(U64)) THEN "OverflowError"
        ELSE "ok"

\* PCG64.seed as it would be with the buffer reset moved ahead of the checks
PCG64_seed_reset_first(self, seed, inc, ent) ==
    LET _seed == IF seed.t = "None" THEN ent
                 ELSE <<NpAsUint64(seed.v \div Pow2(U64)), NpAsUint64(seed.v % Pow2(U64))>>
        _inc == <<NpAsUint64(inc.v \div Pow2(U64)), NpAsUint64(inc.v % Pow2(U64))>>
        cleared == PCG64_reset_state_variables(self)
    IN  IF PCG64_seed_check(seed) # "ok" THEN Raise(PCG64_seed_check(seed), cleared)
        ELSE IF PCG64_inc_check(inc) # "ok" THEN Raise(PCG64_inc_check(inc), cleared)
        ELSE Ok(pcg64_set_seed(cleared, _seed, _inc))

\* PCG64.seed as it would be with the two words of seed and of inc filled in the
\* other order
PCG64_seed_swapped_words(self, seed, inc, ent) ==
    LET _seed == IF seed.t = "None" THEN ent
                 ELSE <<NpAsUint64(seed.v % Pow2(U64)), NpAsUint64(seed.v \div Pow2(U64))>>
        _inc == <<NpAsUint64(inc.v % Pow2(U64)), NpAsUint64(inc.v \div Pow2(U64))>>
    IN  IF PCG64_seed_check(seed) # "ok" THEN Raise(PCG64_seed_check(seed), self)
        ELSE IF PCG64_inc_check(inc) # "ok" THEN Raise(PCG64_inc_check(inc), self)
        ELSE Ok(PCG64_reset_state_variables(pcg64_set_seed(self, _seed, _inc)))

\* PCG64.seed as it would be without the reset of the buffered half-word
PCG64_seed_no_reset(self, seed, inc, ent) ==
    LET _seed == IF seed.t = "None" THEN ent
                 ELSE <<NpAsUint64(seed.v \div Pow2(U64)), NpAsUint64(seed.v % Pow2(U64))>>
        _inc == <<NpAsUint64(inc.v \div Pow2(U64)), NpAsUint64(inc.v % Pow2(U64))>>
    IN  IF PCG64_seed_check(seed) # "ok" THEN Raise(PCG64_seed_check(seed), self)
        ELSE IF PCG64_inc_check(inc) # "ok" THEN Raise(PCG64_inc_check(inc), self)
        ELSE Ok(pcg64_set_seed(self, _seed, _inc))

\* PCG64.seed(seed, inc); ent is the pair of words random_entropy returns
PCG64_seed(self, seed, inc, ent) ==
    LET _seed == IF seed.t = "None" THEN ent
                 ELSE <<NpAsUint64(seed.v \div Pow2(U64)), NpAsUint64(seed.v % Pow2(U64))>>
        _inc == <<NpAsUint64(inc.v \div Pow2(U64)), NpAsUint64(inc.v % Pow2(U64))>>
    IN  IF PCG64_seed_check(seed) # "ok" THEN Raise(PCG64_seed_check(seed), self)
        ELSE IF PCG64_inc_check(inc) # "ok" THEN Raise(PCG64_inc_check(inc), self)
        ELSE Ok(PCG64_reset_state_variables(pcg64_set_seed(self, _seed, _inc)))

\* a pcg128_t as the build holds it: two words (PCG_EMULATED_MATH) or one integer
High(v) == v \div Pow2(U64)
Low(v) == v % Pow2(U64)

\* the getter as it would be without the buffered half-word
PCG64_state_get_no_buffer(self, emulated) ==
    [brng |-> "PCG64",
     state |-> [state |-> self.state, inc |-> self.inc],
     has_uint32 |-> 0,
     uinteger |-> 0]

\* PCG64.state (getter)
PCG64_state_get(self, emulated) ==
    LET state == IF emulated THEN (Pow2(U64) * High(self.state)) + Low(self.state)
                 ELSE self.state
        inc == IF emulated THEN (Pow2(U64) * High(self.inc)) + Low(self.inc)
               ELSE self.inc
    IN  [brng |-> "PCG64",
         state |-> [state |-> state, inc |-> inc],
         has_uint32 |-> self.has_uint32,
         uinteger |-> self.uinteger]

\* the store of one 128-bit field: to the two words (each converted to
\* uint64_t) or to the native integer
PCG64_fits128(v, emulated) ==
    IF emulated THEN FitsUnsigned(v \div Pow2(U64), U64) /\ FitsUnsigned(v % Pow2(U64), U64)
    ELSE FitsUnsigned(v, U128)
PCG64_store128(v, emulated) ==
    IF emulated THEN PCG_128BIT_CONSTANT(v \div Pow2(U64), v % Pow2(U64)) ELSE v

\* PCG64.state (setter), from the fourth assignment back to the first: each
\* assignment raises KeyError for a missing key and OverflowError for a value
\* its C type cannot hold, and keeps what the assignments before it stored
PCG64_set_uinteger(r, d) ==
    IF "uinteger" \notin DOMAIN d THEN Raise("KeyError", r)
    ELSE IF ~FitsUnsigned(d.uinteger, U32) THEN Raise("OverflowError", r)
    ELSE Ok([r EXCEPT !.uinteger = d.uinteger])

PCG64_set_has_uint32(r, d) ==
    IF "has_uint32" \notin DOMAIN d THEN Raise("KeyError", r)
    ELSE IF ~FitsSigned(d.has_uint32, U32) THEN Raise("OverflowError", r)
    ELSE PCG64_set_uinteger([r EXCEPT !.has_uint32 = d.has_uint32], d)

PCG64_set_inc(r, d, emulated) ==
    IF "inc" \notin DOMAIN d.state THEN Raise("KeyError", r)
    ELSE IF ~PCG64_fits128(d.state.inc, emulated) THEN Raise("OverflowError", r)
    ELSE PCG64_set_has_uint32([r EXCEPT !.inc = PCG64_store128(d.state.inc, emulated)], d)

PCG64_set_state(r, d, emulated) ==
    IF ("state" \notin DOMAIN d) \/ ("state" \notin DOMAIN d.state)
    THEN Raise("KeyError", r)
    ELSE IF ~PCG64_fits128(d.state.state, emulated) THEN Raise("OverflowError", r)
    ELSE PCG64_set_inc([r EXCEPT !.state = PCG64_store128(d.state.state, emulated)],
                       d, emulated)

\* the setter as it would be without the check of the tag
PCG64_state_set_untagged(self, value, emulated) ==
    IF value.t # "dict" THEN Raise("TypeError", self)
    ELSE PCG64_set_state(self, value.d, emulated)

PCG64_state_set(self, value, emulated) ==
    IF value.t # "dict" THEN Raise("TypeError", self)
    ELSE LET brng == IF "brng" \in DOMAIN value.d THEN value.d.brng ELSE ""
         IN  IF brng # "PCG64" THEN Raise("ValueError", self)
             ELSE PCG64_set_state(self, value.d, emulated)

\* advance as it would be with the high word of delta left out
PCG64_advance_low_word(self, delta) ==
    IF ~NpFitsUint64(delta \div Pow2(U64)) THEN Raise("OverflowError", self)
    ELSE LET d == <<0, NpAsUint64(delta % Pow2(U64))>>
         IN  Ok(PCG64_reset_state_variables(pcg64_advance(self, d)))

\* advance as it would be without the reset of the buffered half-word
PCG64_advance_keep_buffer(self, delta) ==
    IF ~NpFitsUint64(delta \div Pow2(U64)) THEN Raise("OverflowError", self)
    ELSE LET d == <<NpAsUint64(delta \div Pow2(U64)), NpAsUint64(delta % Pow2(U64))>>
         IN  Ok(pcg64_advance(self, d))

\* PCG64.advance(delta)
PCG64_advance(self, delta) ==
    IF ~NpFitsUint64(delta \div Pow2(U64)) THEN Raise("OverflowError", self)
    ELSE LET d == <<NpAsUint64(delta \div Pow2(U64)), NpAsUint64(delta % Pow2(U64))>>
         IN  Ok(PCG64_reset_state_variables(pcg64_advance(self, d)))

\* PCG64.jump(iter): iter is converted to npy_intp, the product is a Python int
PCG64_jump(self, iter) ==
    IF ~FitsSigned(iter, U64) THEN Raise("OverflowError", self)
    ELSE PCG64_advance(self, iter * Pow2(U64))

----------------------------------------------------------------------------
(* PCG32 (src/randomgen/pcg32.pyx)                                         *)

PCG32_seed_check(seed) ==
    LET ub == Pow2(U64)
    IN  IF seed.t = "None" THEN "ok"
        ELSE IF ~isscalar(seed) THEN "TypeError"
        ELSE IF NotIntegral(seed) THEN "TypeError"
        ELSE IF PyLess(seed, 0) \/ PyGreater(seed, ub) THEN "ValueError"
        ELSE "ok"

PCG32_inc_check(inc) ==
    LET ub == Pow2(U64)
    IN  IF ~isscalar(inc) THEN "TypeError"
        ELSE IF PyLess(inc, 0) \/ PyGreater(inc, ub) \/ NotIntegral(inc)
             THEN "ValueError"
        ELSE "ok"

\* PCG32.seed as it would be with seed passed on in the place of inc as well
PCG32_seed_inc_from_seed(self, seed, inc, ent) ==
    LET s == IF seed.t = "None" THEN ent ELSE seed.v
    IN  IF PCG32_seed_check(seed) # "ok" THEN Raise(PCG32_seed_check(seed), self)
        ELSE IF PCG32_inc_check(inc) # "ok" THEN Raise(PCG32_inc_check(inc), self)
        ELSE IF ~FitsUnsigned(s, U64) \/ ~FitsUnsigned(inc.v, U64)
             THEN Raise("OverflowError", self)
        ELSE Ok(pcg32_set_seed(self, s, s))

\* PCG32.seed(seed, inc); ent is the uint64 random_entropy returns.  The casts
\* <uint64_t>seed and <uint64_t>inc are evaluated before pcg32_set_seed is called.
PCG32_seed(self, seed, inc, ent) ==
    LET s == IF seed.t = "None" THEN ent ELSE seed.v
    IN  IF PCG32_seed_check(seed) # "ok" THEN Raise(PCG32_seed_check(seed), self)
        ELSE IF PCG32_inc_check(inc) # "ok" THEN Raise(PCG32_inc_check(inc), self)
        ELSE IF ~FitsUnsigned(s, U64) \/ ~FitsUnsigned(inc.v, U64)
             THEN Raise("OverflowError", self)
        ELSE Ok(pcg32_set_seed(self, s, inc.v))

\* PCG32.state (getter)
PCG32_state_get(self) ==
    [brng |-> "PCG32", state |-> [state |-> self.state, inc |-> self.inc]]

\* PCG32.state (setter), the second assignment and the first
PCG32_set_inc(r, d) ==
    IF "inc" \notin DOMAIN d.state THEN Raise("KeyError", r)
    ELSE IF ~FitsUnsigned(d.state.inc, U64) THEN Raise("OverflowError", r)
    ELSE Ok([r EXCEPT !.inc = d.state.inc])

PCG32_set_state(r, d) ==
    IF ("state" \notin DOMAIN d) \/ ("state" \notin DOMAIN d.state)
    THEN Raise("KeyError", r)
    ELSE IF ~FitsUnsigned(d.state.state, U64) THEN Raise("OverflowError", r)
    ELSE PCG32_set_inc([r EXCEPT !.state = d.state.state], d)

PCG32_state_set(self, value) ==
    IF value.t # "dict" THEN Raise("TypeError", self)
    ELSE LET brng == IF "brng" \in DOMAIN value.d THEN value.d.brng ELSE ""
         IN  IF brng # "PCG32" THEN Raise("ValueError", self)
             ELSE PCG32_set_state(self, value.d)

\* advance as it would be if a delta of 0 stood for the default of one step
PCG32_advance_at_least_one(self, delta) ==
    IF ~FitsUnsigned(delta, U64) THEN Raise("OverflowError", self)
    ELSE Ok(pcg32_advance_state(self, IF delta = 0 THEN 1 ELSE delta))

\* PCG32.advance(delta): <uint64_t>delta
PCG32_advance(self, delta) ==
    IF ~FitsUnsigned(delta, U64) THEN Raise("OverflowError", self)
    ELSE Ok(pcg32_advance_state(self, delta))

\* jump as it would be if it jumped once whatever iter is
PCG32_jump_once(self, iter) ==
    IF ~FitsSigned(iter, U64) THEN Raise("OverflowError", self)
    ELSE PCG32_advance(self, Pow2(U32))

\* PCG32.jump(iter): iter is converted to npy_intp, the product is a Python int
PCG32_jump(self, iter) ==
    IF ~FitsSigned(iter, U64) THEN Raise("OverflowError", self)
    ELSE PCG32_advance(self, iter * Pow2(U32))

----------------------------------------------------------------------------
(* One instance of either class.                                           *)

\* the dispatch table filled by __init__: next_uint32 and next_uint64
next_uint32(c, rng) == IF c = "PCG32" THEN pcg32_next32(rng) ELSE pcg64_next32(rng)
next_uint64(c, rng) == IF c = "PCG32" THEN pcg32_next64(rng) ELSE pcg64_next64(rng)

seed(c, self, s, inc, ent) ==
    IF c = "PCG32" THEN PCG32_seed(self, s, inc, ent) ELSE PCG64_seed(self, s, inc, ent)
advance(c, self, delta) ==
    IF c = "PCG32" THEN PCG32_advance(self, delta) ELSE PCG64_advance(self, delta)
jump(c, self, iter) ==
    IF c = "PCG32" THEN PCG32_jump(self, iter) ELSE PCG64_jump(self, iter)
state_get(c, self, emulated) ==
    IF c = "PCG32" THEN PCG32_state_get(self) ELSE PCG64_state_get(self, emulated)
state_set(c, self, value, emulated) ==
    IF c = "PCG32" THEN PCG32_state_set(self, value)
    ELSE PCG64_state_set(self, value, emulated)

PyDict(d) == [t |-> "dict", d |-> d]

\* the struct as malloc returns it; seed() stores every field before any is read
Blank == [state |-> 0, inc |-> 0, has_uint32 |-> 0, uinteger |-> 0]

Classes == {"PCG32", "PCG64"}

\* the arguments the model passes to seed(), around the type and range checks
SeedArgs(c) ==
    {PyNone, PyInt(0 - 1), PyInt(0), PyInt(3), PyInt(Mask(c) - 1), PyInt(Mask(c)),
     PyInt(Mask(c) + 1), PyFrac(1), PyList}
IncArgs(c) ==
    {PyNone, PyInt(0 - 1), PyInt(0), PyInt(1), PyInt(Mask(c) - 1), PyInt(Mask(c)),
     PyInt(Mask(c) + 1), PyFrac(1), PyList}
\* the calls of seed(): each seed with a good inc, each inc with a good seed, and
\* one call with both arguments bad
SeedCalls(c) ==
    {<<s, PyInt(1)>> : s \in SeedArgs(c)} \cup {<<PyInt(3), i>> : i \in IncArgs(c)}
    \cup {<<PyFrac(1), PyList>>}
\* the arguments of the constructor
InitCalls == {<<PyNone, PyInt(0)>>, <<PyInt(3), PyInt(1)>>}
\* what random_entropy returns: one uint64 (PCG32), two uint64 words (PCG64)
EntropySet(c) == IF c = "PCG32" THEN {5} ELSE {<<1, 2>>}

\* the arguments of advance(): small ones, around 2**64 and around 2**W
Deltas(c) ==
    {0 - 1, 0, 1, 2, 3, Mask(c) - 2, Mask(c) - 1, Mask(c)}
    \cup (IF c = "PCG64"
          THEN {Pow2(U64) - 1, Pow2(U64), Pow2(U64) + 1, 0 - (Pow2(U128 - 1) + 1)}
          ELSE {})

\* the arguments of jump(): small ones, around 2**32 and around the end of npy_intp
Iters == {0 - 1, 0, 1, 2, Pow2(U32) - 1, Pow2(U32), Pow2(U64 - 1) - 1, Pow2(U64 - 1)}

\* a dict without key k
Without(d, k) == [x \in (DOMAIN d) \ {k} |-> d[x]]

\* the values the model assigns to .state: snapshots of either class with fields
\* in and out of range, snapshots that lack a key or the tag, and a non-dict
Snapshot64(s, i, h, u) ==
    [brng |-> "PCG64", state |-> [state |-> s, inc |-> i], has_uint32 |-> h,
     uinteger |-> u]
Snapshot32(s, i) == [brng |-> "PCG32", state |-> [state |-> s, inc |-> i]]

GoodSnapshots(c) ==
    IF c = "PCG32"
    THEN {Snapshot32(s, i) : s \in {0, 6}, i \in {2, 5}}
    ELSE {Snapshot64(6, 5, 0, 0), Snapshot64(6, 5, 1, 2), Snapshot64(0, 2, 0, 0),
          Snapshot64(Mask(c) - 1, Mask(c) - 1, 0 - 1, Pow2(U32) - 1)}

BadSnapshots(c) ==
    IF c = "PCG32"
    THEN {Snapshot32(Mask(c), 1), Snapshot32(0 - 1, 1), Snapshot32(6, Mask(c)),
          Snapshot32(6, 0 - 1),
          Without(Snapshot32(6, 5), "state"),
          [brng |-> "PCG32", state |-> [state |-> 6]],
          [brng |-> "PCG32", state |-> [inc |-> 5]]}
    ELSE {Snapshot64(Mask(c), 1, 0, 0), Snapshot64(0 - 1, 1, 0, 0),
          Snapshot64(6, Mask(c), 0, 0),
          Snapshot64(6, 0 - 1, 0, 0), Snapshot64(6, 5, Pow2(U32 - 1), 0),
          Snapshot64(6, 5, 1, Pow2(U32)), Snapshot64(6, 5, 1, 0 - 1),
          Without(Snapshot64(6, 5, 1, 2), "state"),
          Without(Snapshot64(6, 5, 1, 2), "has_uint32"),
          Without(Snapshot64(6, 5, 1, 2), "uinteger"),
          [brng |-> "PCG64", state |-> [state |-> 6], has_uint32 |-> 1, uinteger |-> 2],
          [brng |-> "PCG64", state |-> [inc |-> 5], has_uint32 |-> 1, uinteger |-> 2]}

\* snapshots that are not for class c: another class's, or with no tag
ForeignSnapshots(c) ==
    ({Snapshot32(6, 5), Snapshot64(6, 5, 0, 0)} \ GoodSnapshots(c))
    \cup {Without(Snapshot64(6, 5, 1, 2), "brng"), Without(Snapshot32(6, 5), "brng")}

NotADict == [t |-> "list", d |-> <<>>]

StateValues(c) ==
    {PyDict(d) : d \in GoodSnapshots(c) \cup BadSnapshots(c) \cup ForeignSnapshots(c)}
    \cup {NotADict}

VARIABLES
    cls,        \* the instance's class, "PCG32" or "PCG64"
    emulated,   \* PCG_EMULATED_MATH: the build holds a pcg128_t as two words
    rng,        \* the instance's struct: state, inc, has_uint32, uinteger
    out,        \* what the last call returned, NoOut unless it was a draw
    last,       \* the last call: its name, arguments, the struct before it, err
    prev,       \* the call before, kept while both are successful advances or jumps
    twin,       \* a second instance whose state was assigned from this one's, or None
    nops,       \* the number of calls made
    thr         \* the calls in progress on two threads that share the instance

vars == <<cls, emulated, rng, out, last, prev, twin, nops, thr>>

NoOut == 0 - 1
None == [err |-> "none"]
NoPrev == [op |-> "none"]

\* no call in progress on either thread: the lock is free, the drawing thread
\* and the seeding thread are between calls, nothing was exported
NoThreads ==
    [lock |-> "free", dpc |-> "idle", dloc |-> <<0, 0>>,
     mpc |-> "idle", seeded |-> Blank, snap |-> None]

Call(op, a, b, r) == [op |-> op, a |-> a, b |-> b, pre |-> rng, err |-> r.err]

\* __init__(seed, inc): the instance exists when seed() returned
Init ==
    /\ cls \in Classes
    /\ emulated \in (IF cls = "PCG64" THEN BOOLEAN ELSE {FALSE})
    /\ \E call \in InitCalls, e \in EntropySet(cls) :
          LET r == seed(cls, Blank, call[1], call[2], e)
          IN  /\ r.err = "ok"
              /\ rng = r.rng
              /\ last = [op |-> "init", a |-> call[1], b |-> call[2], pre |-> Blank,
                         err |-> "ok"]
    /\ out = NoOut
    /\ prev = NoPrev
    /\ twin = None
    /\ nops = 0
    /\ thr = NoThreads

\* seed(seed, inc)
Seed(s, i, e) ==
    LET r == seed(cls, rng, s, i, e)
    IN  /\ rng' = r.rng
        /\ last' = Call("seed", s, i, r)
        /\ out' = NoOut
        /\ prev' = NoPrev
        /\ twin' = None
        /\ nops' = nops + 1
        /\ UNCHANGED <<cls, emulated, thr>>

\* the call before, remembered when this call chains onto it
Chain(op, r) ==
    IF (r.err = "ok") /\ (last.op = op) /\ (last.err = "ok")
    THEN [op |-> last.op, a |-> last.a, pre |-> last.pre]
    ELSE NoPrev

\* advance(delta)
Advance(delta) ==
    LET r == advance(cls, rng, delta)
    IN  /\ rng' = r.rng
        /\ last' = Call("advance", delta, 0, r)
        /\ out' = NoOut
        /\ prev' = Chain("advance", r)
        /\ twin' = None
        /\ nops' = nops + 1
        /\ UNCHANGED <<cls, emulated, thr>>

\* jump(iter)
Jump(iter) ==
    LET r == jump(cls, rng, iter)
    IN  /\ rng' = r.rng
        /\ last' = Call("jump", iter, 0, r)
        /\ out' = NoOut
        /\ prev' = Chain("jump", r)
        /\ twin' = None
        /\ nops' = nops + 1
        /\ UNCHANGED <<cls, emulated, thr>>

\* self.state = value
SetState(value) ==
    LET r == state_set(cls, rng, value, emulated)
    IN  /\ rng' = r.rng
        /\ last' = Call("state", value, 0, r)
        /\ out' = NoOut
        /\ prev' = NoPrev
        /\ twin' = None
        /\ nops' = nops + 1
        /\ UNCHANGED <<cls, emulated, thr>>

\* other = cls(seed, inc); other.state = self.state
Clone(s, i, e) ==
    LET fresh == seed(cls, Blank, s, i, e)
        r == state_set(cls, fresh.rng, PyDict(state_get(cls, rng, emulated)), emulated)
    IN  /\ fresh.err = "ok"
        /\ twin' = [err |-> r.err, rng |-> r.rng, out |-> NoOut,
                    pending |-> rng.has_uint32 # 0, draws |-> 0]
        /\ last' = Call("clone", s, i, Ok(rng))
        /\ out' = NoOut
        /\ prev' = NoPrev
        /\ nops' = nops + 1
        /\ UNCHANGED <<cls, emulated, thr, rng>>

\* the same draw on the twin
TwinDraw(d) == [twin EXCEPT !.rng = d.rng, !.out = d.out, !.draws = @ + 1]

\* a 32-bit draw through the dispatch table, on the instance and on its twin
Next32 ==
    LET r == next_uint32(cls, rng)
    IN  /\ rng' = r.rng
        /\ out' = r.out
        /\ last' = Call("next32", 0, 0, Ok(rng))
        /\ prev' = NoPrev
        /\ twin' = IF twin = None THEN None ELSE TwinDraw(next_uint32(cls, twin.rng))
        /\ nops' = nops + 1
        /\ UNCHANGED <<cls, emulated, thr>>

\* a 64-bit draw through the dispatch table, on the instance and on its twin
Next64 ==
    LET r == next_uint64(cls, rng)
    IN  /\ rng' = r.rng
        /\ out' = r.out
        /\ last' = Call("next64", 0, 0, Ok(rng))
        /\ prev' = NoPrev
        /\ twin' = IF twin = None THEN None ELSE TwinDraw(next_uint64(cls, twin.rng))
        /\ nops' = nops + 1
        /\ UNCHANGED <<cls, emulated, thr>>

\* what malloc may return for the structs: any content.  PCG32's struct has no
\* buffered half-word.
Garbage(c) ==
    IF c = "PCG32"
    THEN {Blank, [state |-> 6, inc |-> 2, has_uint32 |-> 0, uinteger |-> 0]}
    ELSE {Blank, [state |-> 6, inc |-> 2, has_uint32 |-> 1, uinteger |-> 3]}

\* the explicit (seed, inc) pairs two instances are constructed with
TwinCalls(c) ==
    {<<PyInt(3), PyInt(1)>>, <<PyInt(Mask(c) - 1), PyInt(0)>>,
     <<PyInt(0), PyInt(Mask(c) - 1)>>}

\* a = cls(seed, inc); b = cls(seed, inc): two constructions with the same
\* explicit arguments, each on the memory malloc gave it
Construct(s, i, g1, g2) ==
    LET a == seed(cls, g1, s, i, 0)
        b == seed(cls, g2, s, i, 0)
    IN  /\ s.t # "None"
        /\ a.err = "ok"
        /\ rng' = a.rng
        /\ twin' = [err |-> b.err, rng |-> b.rng, out |-> NoOut, pending |-> FALSE,
                    draws |-> 0]
        /\ last' = Call("construct", s, i, a)
        /\ out' = NoOut
        /\ prev' = NoPrev
        /\ nops' = nops + 1
        /\ UNCHANGED <<cls, emulated, thr>>

\* advance(delta) on both instances
TwinAdvance(delta) ==
    LET a == advance(cls, rng, delta)
        b == advance(cls, twin.rng, delta)
    IN  /\ twin # None
        /\ rng' = a.rng
        /\ twin' = [twin EXCEPT !.err = b.err, !.rng = b.rng, !.out = NoOut]
        /\ last' = Call("advance", delta, 0, a)
        /\ out' = NoOut
        /\ prev' = NoPrev
        /\ nops' = nops + 1
        /\ UNCHANGED <<cls, emulated, thr>>

\* jump(iter) on both instances
TwinJump(iter) ==
    LET a == jump(cls, rng, iter)
        b == jump(cls, twin.rng, iter)
    IN  /\ twin # None
        /\ rng' = a.rng
        /\ twin' = [twin EXCEPT !.err = b.err, !.rng = b.rng, !.out = NoOut]
        /\ last' = Call("jump", iter, 0, a)
        /\ out' = NoOut
        /\ prev' = NoPrev
        /\ nops' = nops + 1
        /\ UNCHANGED <<cls, emulated, thr>>

\* the stream selectors two instances are seeded with: small ones, as in the
\* recipe PCG(seed, i + 1), and ones around the half and the end of the range
StreamSelectors(c) ==
    (0 .. 7) \cup {Mask(c) \div 2, (Mask(c) \div 2) + 1, Mask(c) - 1}

StreamSeeds(c) == {0, 3, Mask(c) - 1}

\* a = cls(seed, inc1); b = cls(seed, inc2): the same seed, two stream selectors
Streams(s, i1, i2) ==
    LET a == seed(cls, Blank, PyInt(s), PyInt(i1), 0)
        b == seed(cls, Blank, PyInt(s), PyInt(i2), 0)
    IN  /\ i1 # i2
        /\ a.err = "ok"
        /\ b.err = "ok"
        /\ rng' = a.rng
        /\ twin' = [err |-> b.err, rng |-> b.rng, out |-> NoOut, pending |-> FALSE,
                    draws |-> 0]
        /\ last' = [op |-> "streams", a |-> s, b |-> <<i1, i2>>, pre |-> rng,
                    err |-> "ok"]
        /\ out' = NoOut
        /\ prev' = NoPrev
        /\ nops' = nops + 1
        /\ UNCHANGED <<cls, emulated, thr>>

----------------------------------------------------------------------------
(* Specifications.  Each bounds the number of calls and makes the calls of *)
(* one part of the interface with all their arguments, between draws.      *)

MaxSeedOps == 3
MaxStateOps == 3
MaxAdvanceOps == 2
MaxCloneOps == 4

Within(n) == nops < n

\* seeding and re-seeding
NextSeed ==
    \/ \E call \in SeedCalls(cls), e \in EntropySet(cls) :
          Within(MaxSeedOps) /\ Seed(call[1], call[2], e)
    \/ Within(MaxSeedOps) /\ Next32
    \/ Within(MaxSeedOps) /\ Next64

SpecSeed == Init /\ [][NextSeed]_vars

\* state assignment
NextState ==
    \/ \E value \in StateValues(cls) : Within(MaxStateOps) /\ SetState(value)
    \/ Within(MaxStateOps) /\ Next32
    \/ Within(MaxStateOps) /\ Next64

SpecState == Init /\ [][NextState]_vars

\* advance and jump
NextAdvance ==
    \/ \E delta \in Deltas(cls) : Within(MaxAdvanceOps) /\ Advance(delta)
    \/ \E iter \in Iters : Within(MaxAdvanceOps) /\ Jump(iter)
    \/ Within(MaxAdvanceOps) /\ Next32
    \/ Within(MaxAdvanceOps) /\ Next64

SpecAdvance == Init /\ [][NextAdvance]_vars

\* a second instance takes over the state after any calls of the first
NextClone ==
    \/ \E call \in InitCalls, e \in EntropySet(cls) :
          Within(MaxCloneOps) /\ Seed(call[1], call[2], e)
    \/ \E delta \in {1, Pow2(U64) + 1} : Within(MaxCloneOps) /\ Advance(delta)
    \/ Within(MaxCloneOps) /\ Jump(1)
    \/ \E value \in {PyDict(d) : d \in GoodSnapshots(cls)} :
          Within(MaxCloneOps) /\ SetState(value)
    \/ \E call \in InitCalls, e \in EntropySet(cls) :
          Within(MaxCloneOps) /\ Clone(call[1], call[2], e)
    \/ Within(MaxCloneOps) /\ Next32
    \/ Within(MaxCloneOps) /\ Next64

SpecClone == Init /\ [][NextClone]_vars

MaxTwinOps == 4

\* two instances constructed alike and driven by the same calls
NextTwin ==
    \/ \E call \in TwinCalls(cls), g1 \in Garbage(cls), g2 \in Garbage(cls) :
          Within(MaxTwinOps) /\ (g1 # g2) /\ Construct(call[1], call[2], g1, g2)
    \/ \E delta \in {0 - 1, 1, Pow2(U64) + 1, Mask(cls)} :
          Within(MaxTwinOps) /\ TwinAdvance(delta)
    \/ \E iter \in {1, Pow2(U64 - 1)} : Within(MaxTwinOps) /\ TwinJump(iter)
    \/ Within(MaxTwinOps) /\ Next32
    \/ Within(MaxTwinOps) /\ Next64

SpecTwin == Init /\ [][NextTwin]_vars

MaxStreamOps == 1

\* two instances seeded with one seed and two stream selectors, and draws
NextStreams ==
    \/ \E s \in StreamSeeds(cls), i1 \in StreamSelectors(cls), i2 \in StreamSelectors(cls) :
          Within(MaxStreamOps) /\ Streams(s, i1, i2)
    \/ Within(MaxStreamOps) /\ Next32
    \/ Within(MaxStreamOps) /\ Next64

SpecStreams == Init /\ [][NextStreams]_vars

MaxRepositionOps == 2

\* every call that repositions the generator, with all its arguments, from the
\* states that draws and state assignments leave
NextReposition ==
    \/ \E call \in SeedCalls(cls), e \in EntropySet(cls) :
          Within(MaxRepositionOps) /\ Seed(call[1], call[2], e)
    \/ \E delta \in Deltas(cls) : Within(MaxRepositionOps) /\ Advance(delta)
    \/ \E iter \in Iters : Within(MaxRepositionOps) /\ Jump(iter)
    \/ \E value \in {PyDict(d) : d \in GoodSnapshots(cls)} :
          Within(MaxRepositionOps) /\ SetState(value)
    \/ Within(MaxRepositionOps) /\ Next32
    \/ Within(MaxRepositionOps) /\ Next64

SpecReposition == Init /\ [][NextReposition]_vars

\* one step of a call in progress on a thread, with the holder of the lock
\* while the step runs
ThreadStep(op, holder) == [op |-> op, a |-> holder, b |-> 0, pre |-> rng, err |-> "ok"]

\* PCG64.random_raw on the drawing thread: the helper takes self.lock and
\* releases the interpreter lock for the draws
RawAcquire ==
    /\ cls = "PCG64"
    /\ thr.dpc = "idle"
    /\ thr.lock = "free"
    /\ thr' = [thr EXCEPT !.lock = "drawer", !.dpc = "read"]
    /\ last' = ThreadStep("raw", "drawer")
    /\ nops' = nops + 1
    /\ UNCHANGED <<cls, emulated, rng, out, prev, twin>>

\* pcg64_uint64 under the lock: the step reads state and inc ...
RawRead ==
    /\ thr.dpc = "read"
    /\ thr' = [thr EXCEPT !.dloc = <<rng.state, rng.inc>>, !.dpc = "write"]
    /\ last' = ThreadStep("raw", thr.lock)
    /\ nops' = nops + 1
    /\ UNCHANGED <<cls, emulated, rng, out, prev, twin>>

\* ... and stores the new state, whatever another thread stored in between
RawWrite ==
    LET d == next_uint64(cls, [rng EXCEPT !.state = thr.dloc[1], !.inc = thr.dloc[2]])
    IN  /\ thr.dpc = "write"
        /\ rng' = [rng EXCEPT !.state = d.rng.state]
        /\ out' = d.out
        /\ thr' = [thr EXCEPT !.dpc = "release"]
        /\ last' = ThreadStep("raw", thr.lock)
        /\ nops' = nops + 1
        /\ UNCHANGED <<cls, emulated, prev, twin>>

\* the helper leaves its with block
RawRelease ==
    /\ thr.dpc = "release"
    /\ thr' = [thr EXCEPT !.lock = "free", !.dpc = "idle"]
    /\ last' = ThreadStep("raw", "drawer")
    /\ nops' = nops + 1
    /\ UNCHANGED <<cls, emulated, rng, out, prev, twin>>

\* PCG32._benchmark(1, 'uint64') on the drawing thread: the draw is made with
\* the interpreter lock held, between the calls of the other thread, and
\* without self.lock
Benchmark ==
    LET d == next_uint64(cls, rng)
    IN  /\ cls = "PCG32"
        /\ thr.mpc \notin {"store", "reset"}
        /\ rng' = d.rng
        /\ out' = NoOut
        /\ last' = ThreadStep("benchmark", thr.lock)
        /\ nops' = nops + 1
        /\ UNCHANGED <<cls, emulated, prev, twin, thr>>

\* seed(seed, inc) on the other thread, up to the end of its checks: nothing
\* is stored yet, and self.lock is not taken
ThreadSeedBegin(s, i, e) ==
    LET r == seed(cls, rng, s, i, e)
    IN  /\ thr.mpc = "idle"
        /\ r.err = "ok"
        /\ thr' = [thr EXCEPT !.mpc = "store", !.seeded = r.rng, !.snap = None]
        /\ last' = ThreadStep("seed", thr.lock)
        /\ nops' = nops + 1
        /\ UNCHANGED <<cls, emulated, rng, out, prev, twin>>

\* seed(): the set_seed call stores state and inc
ThreadSeedStore ==
    /\ thr.mpc = "store"
    /\ rng' = [rng EXCEPT !.state = thr.seeded.state, !.inc = thr.seeded.inc]
    /\ thr' = [thr EXCEPT !.mpc = IF cls = "PCG64" THEN "reset" ELSE "export"]
    /\ last' = ThreadStep("seed", thr.lock)
    /\ nops' = nops + 1
    /\ UNCHANGED <<cls, emulated, out, prev, twin>>

\* PCG64.seed(): _reset_state_variables, the last statement
ThreadSeedReset ==
    /\ thr.mpc = "reset"
    /\ rng' = PCG64_reset_state_variables(rng)
    /\ thr' = [thr EXCEPT !.mpc = "export"]
    /\ last' = ThreadStep("seed", thr.lock)
    /\ nops' = nops + 1
    /\ UNCHANGED <<cls, emulated, out, prev, twin>>

\* the same thread reads the state property after its seed() returned
ThreadExport ==
    /\ thr.mpc = "export"
    /\ thr' = [thr EXCEPT !.mpc = "idle", !.snap = state_get(cls, rng, emulated)]
    /\ last' = ThreadStep("export", thr.lock)
    /\ nops' = nops + 1
    /\ UNCHANGED <<cls, emulated, rng, out, prev, twin>>

MaxThreadOps == 8

\* two threads share one instance: one draws, the other seeds and exports
NextThreads ==
    \/ Within(MaxThreadOps) /\ RawAcquire
    \/ Within(MaxThreadOps) /\ RawRead
    \/ Within(MaxThreadOps) /\ RawWrite
    \/ Within(MaxThreadOps) /\ RawRelease
    \/ Within(MaxThreadOps) /\ Benchmark
    \/ \E call \in SeedCalls(cls), e \in EntropySet(cls) :
          Within(MaxThreadOps) /\ ThreadSeedBegin(call[1], call[2], e)
    \/ Within(MaxThreadOps) /\ ThreadSeedStore
    \/ Within(MaxThreadOps) /\ ThreadSeedReset
    \/ Within(MaxThreadOps) /\ ThreadExport

SpecThreads == Init /\ [][NextThreads]_vars

----------------------------------------------------------------------------
(* Properties.                                                             *)

\* the single step applied n times: to the state after n - 1 steps when n is
\* odd, and else n/2 times to the state after n/2 steps (the comparison with 0
\* makes TLC evaluate the first half before it starts on the second)
RECURSIVE StepN(_, _, _, _)
StepN(c, state, inc, n) ==
    IF n = 0 THEN state
    ELSE IF (n % 2) = 1
         THEN LET before == StepN(c, state, inc, n - 1)
              IN  IF before >= 0 THEN pcg_setseq_step(c, before, inc) ELSE before
    ELSE LET half == StepN(c, state, inc, n \div 2)
         IN  IF half >= 0 THEN StepN(c, half, inc, n \div 2) ELSE half

\* the outputs of a sequence of draws, each of 32 or of 64 bits
RECURSIVE Outputs(_, _, _)
Outputs(c, r, kinds) ==
    IF kinds = <<>> THEN <<>>
    ELSE LET d == IF Head(kinds) = 32 THEN next_uint32(c, r) ELSE next_uint64(c, r)
         IN  <<d.out>> \o Outputs(c, d.rng, Tail(kinds))

\* the length of the draw sequences compared past the draws the run has made
MaxDraws == 3

DrawSeqs == UNION {[1..n -> {32, 64}] : n \in 1..MaxDraws}

InRange(v) == (0 <= v) /\ (v < Mask(cls))

\* C1: once a fresh instance of the same class has been assigned the state the
\* first instance exports, the assignment has succeeded and every draw made on
\* both since, and every sequence of 32- and 64-bit draws still to be made,
\* returns the same values on both.
C1_StateRoundTrip ==
    (twin # None) =>
        /\ twin.err = "ok"
        /\ twin.out = out
        /\ \A ks \in DrawSeqs : Outputs(cls, twin.rng, ks) = Outputs(cls, rng, ks)

\* the wide engine's state was taken over with a half-word pending, and two
\* draws have been made on both instances since
C1_Witness ==
    /\ cls = "PCG64"
    /\ twin # None
    /\ twin.pending
    /\ twin.draws >= 2
    /\ last.op = "next32"

\* C2: advance(delta) with 0 <= delta < 2**W succeeds and leaves the state that
\* delta single steps state' = state*MULT + increment give, and the increment
\* as it was.
C2_AdvanceIsDeltaSteps ==
    ((last.op = "advance") /\ InRange(last.a)) =>
        /\ last.err = "ok"
        /\ rng.state = StepN(cls, last.pre.state, last.pre.inc, last.a)
        /\ rng.inc = last.pre.inc

\* the wide engine advanced by a delta with a high and a low word
C2_Witness ==
    /\ cls = "PCG64"
    /\ last.op = "advance"
    /\ last.err = "ok"
    /\ last.a = Pow2(U64) + 1
    /\ rng.state # last.pre.state
    /\ last.pre.has_uint32 = 1

\* C3: advance(a) then advance(b), both in [0, 2**W), leave the generator as one
\* advance((a + b) mod 2**W) from the same start leaves it.
C3_AdvanceComposes ==
    ((last.op = "advance") /\ (prev.op = "advance") /\ InRange(last.a)
        /\ InRange(prev.a)) =>
        LET single == advance(cls, prev.pre, (prev.a + last.a) % Mask(cls))
        IN  (single.err = "ok") /\ (single.rng = rng)

\* two advances whose deltas add up past 2**W
C3_Witness ==
    /\ last.op = "advance"
    /\ prev.op = "advance"
    /\ InRange(last.a) /\ InRange(prev.a)
    /\ last.a > 0 /\ prev.a > 0
    /\ (prev.a + last.a) > Mask(cls)
    /\ rng.state # prev.pre.state

\* C4 as stated: jump(m) then jump(n), m and n non-negative and both accepted,
\* leave the generator as jump(m + n) leaves it, and jump(m + n) succeeds.
C4_JumpComposesAndSucceeds ==
    ((last.op = "jump") /\ (prev.op = "jump") /\ (last.a >= 0) /\ (prev.a >= 0)) =>
        LET single == jump(cls, prev.pre, prev.a + last.a)
        IN  (single.err = "ok") /\ (single.rng = rng)

\* C4 as amended: jump(m) then jump(n), m and n non-negative and both accepted,
\* leave the generator as jump(m + n) leaves it whenever jump(m + n) is accepted
\* too.
C4_JumpComposes ==
    ((last.op = "jump") /\ (prev.op = "jump") /\ (last.a >= 0) /\ (prev.a >= 0)) =>
        LET single == jump(cls, prev.pre, prev.a + last.a)
        IN  (single.err = "ok") => (single.rng = rng)

\* two jumps by m > 0 and n > 0 on the narrow engine, where jump(m + n) is accepted
C4_Witness ==
    /\ cls = "PCG32"
    /\ last.op = "jump"
    /\ prev.op = "jump"
    /\ last.a > 0 /\ prev.a > 0
    /\ jump(cls, prev.pre, prev.a + last.a).err = "ok"
    /\ rng.state # prev.pre.state

\* C5 as stated: the increment is odd in every state.
C5_IncrementOdd == (rng.inc % 2) = 1

IsInt(x) == x.t = "int"

\* C6 as stated: seed(seedValue, inc) with integer arguments succeeds when both
\* are in [0, 2**W) and raises ValueError when one is negative or >= 2**W.
C6_RangeValidation ==
    ((last.op = "seed") /\ IsInt(last.a) /\ IsInt(last.b)) =>
        IF InRange(last.a.v) /\ InRange(last.b.v)
        THEN last.err = "ok"
        ELSE last.err = "ValueError"

BadType(x) == x.t \in {"float", "list"}
GoodInt(x) == IsInt(x) /\ InRange(x.v)

\* C7 as stated: seed(seedValue, inc) with one argument a non-scalar or a scalar
\* with a fractional part, and the other a good integer, raises TypeError.
C7_TypeValidation ==
    ((last.op = "seed")
        /\ ((BadType(last.a) /\ GoodInt(last.b)) \/ (GoodInt(last.a) /\ BadType(last.b))))
    => (last.err = "TypeError")

\* C8: a call of seed() that raises leaves state, inc, has_uint32 and uinteger
\* as they were.
C8_FailedSeedKeepsState ==
    ((last.op = "seed") /\ (last.err # "ok")) => (rng = last.pre)

\* the wide engine, a half-word pending, re-seeded with a good seed and a bad inc
C8_Witness ==
    /\ cls = "PCG64"
    /\ last.op = "seed"
    /\ last.err # "ok"
    /\ GoodInt(last.a)
    /\ ~GoodInt(last.b)
    /\ last.pre.has_uint32 = 1

\* the tag of a value assigned to .state: value.get('brng', '')
TagOf(value) == IF "brng" \in DOMAIN value.d THEN value.d.brng ELSE ""

\* C9: assigning to .state a value that is not a dict raises TypeError, a dict
\* whose 'brng' is missing or is not the class's name raises ValueError, and
\* both leave state, inc, has_uint32 and uinteger as they were.
C9_ForeignStateRejected ==
    ((last.op = "state") /\ ((last.a.t # "dict") \/ (TagOf(last.a) # cls))) =>
        /\ last.err = (IF last.a.t # "dict" THEN "TypeError" ELSE "ValueError")
        /\ rng = last.pre

\* a PCG32 snapshot assigned to a PCG64 that holds a pending half-word
C9_Witness ==
    /\ cls = "PCG64"
    /\ last.op = "state"
    /\ last.a = PyDict(Snapshot32(6, 5))
    /\ last.pre.has_uint32 = 1
    /\ last.pre.state # 6

\* C10 as stated: a state assignment that raises leaves state, inc, has_uint32
\* and uinteger as they were.
C10_AtomicStateAssignment ==
    ((last.op = "state") /\ (last.err # "ok")) => (rng = last.pre)

\* the last call was a successful construction, seed, advance or jump
Repositioned == (last.op \in {"init", "seed", "advance", "jump"}) /\ (last.err = "ok")

\* C11: on the wide engine, right after a successful seed, advance or jump the
\* buffered half-word is empty (has_uint32 = 0, uinteger = 0), and the next
\* 32-bit draw is the low half of a fresh 64-bit output of the new state.
C11_BufferCleared ==
    ((cls = "PCG64") /\ Repositioned) =>
        /\ rng.has_uint32 = 0
        /\ rng.uinteger = 0
        /\ LET d == next_uint32(cls, rng)
               f == pcg64_random_r(rng)
           IN  (d.out = f.out % Pow2(U32)) /\ (d.rng.state = f.rng.state)

\* the wide engine advanced or jumped while a non-zero half-word was pending
C11_Witness ==
    /\ cls = "PCG64"
    /\ last.op \in {"advance", "jump"}
    /\ last.err = "ok"
    /\ last.pre.has_uint32 = 1
    /\ last.pre.uinteger # 0

\* C15 as stated: advance(0) leaves state, inc, has_uint32 and uinteger as they
\* were, and every sequence of draws that follows returns what it would have
\* returned without the call.
C15_AdvanceZeroIsNoop ==
    ((last.op = "advance") /\ (last.a = 0)) =>
        /\ last.err = "ok"
        /\ rng = last.pre
        /\ \A ks \in DrawSeqs : Outputs(cls, rng, ks) = Outputs(cls, last.pre, ks)

\* C15 as amended: advance(0) succeeds and leaves state and inc as they were; it
\* empties the buffered half-word as every advance does, so the whole struct is
\* unchanged when the buffer was empty, and the draws that follow are unchanged
\* when no half-word was pending.
C15_AdvanceZeroKeepsState ==
    ((last.op = "advance") /\ (last.a = 0)) =>
        /\ last.err = "ok"
        /\ rng = [last.pre EXCEPT !.has_uint32 = 0, !.uinteger = 0]
        /\ (last.pre.has_uint32 = 0) =>
              \A ks \in DrawSeqs : Outputs(cls, rng, ks) = Outputs(cls, last.pre, ks)

\* advance(0) on the wide engine while a non-zero half-word was pending
C15_Witness ==
    /\ cls = "PCG64"
    /\ last.op = "advance"
    /\ last.a = 0
    /\ last.pre.has_uint32 = 1
    /\ last.pre.uinteger # 0

\* C17: seed(seedValue, inc) with both arguments integers in [0, 2**W) succeeds
\* and leaves an odd increment derived from inc, the state
\* ((0*MULT + increment) + seedValue)*MULT + increment (mod 2**W), whatever the
\* state was before, and an empty buffer.
C17_SeedingWarmUp ==
    ((last.op \in {"init", "seed"}) /\ GoodInt(last.a) /\ GoodInt(last.b)) =>
        /\ last.err = "ok"
        /\ (rng.inc % 2) = 1
        /\ rng.inc = ((2 * last.b.v) + 1) % Mask(cls)
        /\ rng.state =
              ((((((0 * MULT(cls)) + rng.inc) % Mask(cls)) + last.a.v) * MULT(cls))
                  + rng.inc) % Mask(cls)
        /\ rng.has_uint32 = 0
        /\ rng.uinteger = 0

\* the wide engine re-seeded, with a seed that has a high word, while a
\* half-word was pending
C17_Witness ==
    /\ cls = "PCG64"
    /\ last.op = "seed"
    /\ last.err = "ok"
    /\ GoodInt(last.a) /\ GoodInt(last.b)
    /\ last.a.v >= Pow2(U64)
    /\ last.pre.has_uint32 = 1
    /\ rng.state # last.pre.state

\* C12: two instances constructed with the same explicit (seed, inc), on
\* whatever memory malloc gave each, and driven by the same draws, advances and
\* jumps, return the same values, raise the same exceptions and export the
\* same state after every call, and will return the same values for every
\* sequence of draws still to be made.
C12_Determinism ==
    ((twin # None) /\ (last.op \in {"construct", "advance", "jump", "next32", "next64"})) =>
        /\ twin.out = out
        /\ (last.op \in {"construct", "advance", "jump"}) => (twin.err = last.err)
        /\ state_get(cls, twin.rng, emulated) = state_get(cls, rng, emulated)
        /\ \A ks \in DrawSeqs : Outputs(cls, twin.rng, ks) = Outputs(cls, rng, ks)

\* two wide-engine instances built on different memory have made a 32-bit
\* draw and have then been advanced
C12_Witness ==
    /\ cls = "PCG64"
    /\ twin # None
    /\ twin.draws >= 1
    /\ last.op = "advance"
    /\ last.err = "ok"
    /\ last.pre.has_uint32 = 1

\* the number of native draws within which two streams are compared
MaxStreamDraws == 8

\* n draws of the engine's native width
NativeDraws(n) == [k \in 1..n |-> IF cls = "PCG32" THEN 32 ELSE 64]

\* the two instances return different values somewhere in their first
\* MaxStreamDraws native draws
StreamsDiverge ==
    Outputs(cls, rng, NativeDraws(MaxStreamDraws))
        # Outputs(cls, twin.rng, NativeDraws(MaxStreamDraws))

\* C13 as stated: seeded with the same seed and two different stream selectors
\* in [0, 2**W), two instances hold different increments and their output
\* sequences differ.
C13_DistinctStreams ==
    (last.op = "streams") =>
        /\ rng.inc # twin.rng.inc
        /\ StreamsDiverge

\* C13 as amended: two selectors that differ modulo 2**(W-1) give different
\* increments and output sequences that differ; two selectors that differ by
\* 2**(W-1) give the same increment, state and outputs.
C13_DistinctStreamsBelowHalf ==
    (last.op = "streams") =>
        IF (last.b[1] % (Mask(cls) \div 2)) # (last.b[2] % (Mask(cls) \div 2))
        THEN (rng.inc # twin.rng.inc) /\ StreamsDiverge
        ELSE (rng = twin.rng) /\ ~StreamsDiverge

\* two instances seeded with the seed 3 and the neighbouring selectors 1 and 2
C13_Witness ==
    /\ last.op = "streams"
    /\ last.a = 3
    /\ last.b = <<1, 2>>
    /\ rng.inc # twin.rng.inc

\* C16 as stated, on the wide engine: has_uint32 is 0 or 1; a 32-bit or 64-bit
\* draw made while a half-word is pending does not step the LCG state, and the
\* 32-bit draw returns the pending half-word and empties the buffer; a 32-bit
\* draw made with an empty buffer steps the state once, returns one half of the
\* 64-bit output of that step and leaves the other half pending.
C16_PendingDiscipline ==
    (cls = "PCG64") =>
        /\ rng.has_uint32 \in {0, 1}
        /\ (((last.op \in {"next32", "next64"}) /\ (last.pre.has_uint32 # 0)) =>
              (rng.state = last.pre.state))
        /\ (((last.op = "next32") /\ (last.pre.has_uint32 # 0)) =>
              ((out = last.pre.uinteger) /\ (rng.has_uint32 = 0)))
        /\ (((last.op = "next32") /\ (last.pre.has_uint32 = 0)) =>
              LET f == pcg64_random_r(last.pre)
                  low == f.out % Pow2(U32)
                  high == f.out \div Pow2(U32)
              IN  /\ rng.state = pcg_setseq_step(cls, last.pre.state, last.pre.inc)
                  /\ rng.has_uint32 = 1
                  /\ \/ (out = low) /\ (rng.uinteger = high)
                     \/ (out = high) /\ (rng.uinteger = low))


\* the steps of the calls that change the state or export it, and the thread
\* that makes each of them
ThreadOps == {"raw", "benchmark", "seed", "export"}
Owner(op) == IF op \in {"raw", "benchmark"} THEN "drawer" ELSE "seeder"

\* the snapshot exported after a seed() is the seeded state, or what draws made
\* after the seed lead to from it
ExportedSerial ==
    /\ thr.snap.state.inc = thr.seeded.inc
    /\ \E k \in 0..(2 * MaxThreadOps) :
          thr.snap.state.state = StepN(cls, thr.seeded.state, thr.seeded.inc, k)

\* C14 as stated: every step of a call that draws, seeds or exports the state
\* runs while its thread holds the instance's lock, and so an exported snapshot
\* is never one that a concurrent seed has only partly updated: after a seed it
\* holds the seeded increment and a state that draws reach from the seeded
\* state.
C14_LockDiscipline ==
    /\ (last.op \in ThreadOps) => (last.a = Owner(last.op))
    /\ (thr.snap # None) => ExportedSerial

=============================================================================
